---- MODULE Spec2Model ----
(***************************************************************************)
(* Model of the crypto-ai-analyst pipeline: the LangGraph workflow         *)
(* (data_collection -> analysis -> END, with error_handler), the record    *)
(* validator, the market-data gateway as data_collection calls it and the  *)
(* request handler that turns the final state into a response. The rate    *)
(* limiter and the requests of the gateway are also followed in time, for   *)
(* one caller (SpecGateway) and for two callers sharing it (SpecShared).    *)
(* The agents of the agents package (analysis, insights, report, charts)   *)
(* are attached to no node of the graph; they are called in turn on one    *)
(* state mapping (SpecAgents), and the insights parser on the texts of the *)
(* remote answer (SpecParser).                                             *)
(*                                                                         *)
(* Conventions.                                                            *)
(*  - A JSON value of a numeric field is a tagged record: Num(n), Null     *)
(*    (JSON null / Python None), Absent (key not in the mapping) or Bad    *)
(*    (a value of a type the schema cannot coerce).                        *)
(*  - A string field holds its string, or ABSENT / NULLSTR.                *)
(*  - A diagnostic string is a record [kind, about, fields]: the fixed     *)
(*    text of the message, the value interpolated into it and, for a       *)
(*    pydantic ValidationError, the set of fields it reports.              *)
(*  - The timestamp field of the state is a wall-clock reading no stage    *)
(*    reads; it is not modelled.                                           *)
(*  - A text is the sequence of its characters; a formatted statement is *)
(*    a record [kind, values]: which f-string it is and the numbers        *)
(*    formatted into it.                                                   *)
(*  - Gateway time is counted in half time units, so that the delay of    *)
(*    2.5 is the integer 5 and the cooldown of 120 is 240.                 *)
(***************************************************************************)
EXTENDS Integers, Sequences, FiniteSets, TLC

VARIABLES
    pc,         \* the node the graph runs next: a node name, "END", "responded"
    state,      \* the CryptoAnalysisState record held in the graph's channels
    visited,    \* the nodes that have run so far in this run, in order
    caught,     \* the exceptions caught by the nodes' except clauses, in order
    response,   \* the AnalysisResponse built by run_analysis, NoResponse before
    gw,         \* what the gateway did in the data_collection call of the run
    vIn,        \* validator harness: the raw sequence handed to the validator
    vOut,       \* validator harness: what validate_raw_crypto_data produced
    aPc,        \* agents called in turn: the agent called next, "idle" if none
    aState,     \* agents called in turn: the state mapping they are handed
    remote,     \* agents called in turn: how the remote text generation answers
    now,        \* gateway in time: the clock time.time() reads, in half time units
    last_request_time,  \* gateway in time: CryptoService.last_request_time
    thread,     \* gateway in time: per caller, where it is in its gateway call
    calls,      \* gateway in time: the gateway calls made, with their requests
    sent        \* gateway in time: the outbound requests, in dispatch order

\* The variables of the workflow run, of the validator and of the agents called
\* on their own, and of the gateway followed in time.
workflow == <<pc, state, visited, caught, response, gw>>
agents == <<aPc, aState, remote>>
harness == <<vIn, vOut, agents>>
gateway == <<now, last_request_time, thread, calls, sent>>

vars == <<workflow, harness, gateway>>

---------------------------------------------------------------------------
(* Bounds *)

\* Longest provider listing (and largest num_coins) explored.
MaxRaw == 2

\* Longest raw sequence handed to the validator on its own.
MaxBatch == 3

\* Gateway calls followed in time, all callers together.
MaxCalls == 3

\* Last clock reading from which time still passes while no caller sleeps.
MaxClock == 6

\* Longest batch of records handed to the agents, the long batches apart.
MaxCoins == 3

\* Most lines of a remote response text handed to the insights parser.
MaxLines == 6

---------------------------------------------------------------------------
(* Values *)

ABSENT == "<absent>"
NULLSTR == "<null>"

Num(n) == [t |-> "num", v |-> n]
Null == [t |-> "null", v |-> 0]
Absent == [t |-> "absent", v |-> 0]
Bad == [t |-> "bad", v |-> 0]

IsNone(x) == x.t = "null"

Msg(kind, about, fields) == [kind |-> kind, about |-> about, fields |-> fields]

\* No exception.
NoExc == Msg("", "", {})

EmptyDict == [k \in {} |-> 0]

\* Python's sum() over a sequence of integers.
RECURSIVE SumSeq(_)
SumSeq(s) == IF s = <<>> THEN 0 ELSE Head(s) + SumSeq(Tail(s))

\* s[:n]
Take(s, n) == SubSeq(s, 1, IF Len(s) < n THEN Len(s) ELSE n)

Min(a, b) == IF a < b THEN a ELSE b

---------------------------------------------------------------------------
(* models/schemas.py: CryptoData *)

RequiredStr == {"id", "symbol", "name"}

\* The fields pydantic reports for a mapping: a required field that is missing,
\* null or of a wrong type; an optional field of a wrong type.
CryptoDataErrors(item) ==
    {f \in RequiredStr : item[f] \in {ABSENT, NULLSTR}}
    \cup (IF item.current_price.t # "num" THEN {"current_price"} ELSE {})
    \cup (IF item.market_cap.t = "bad" THEN {"market_cap"} ELSE {})
    \cup (IF item.total_volume.t = "bad" THEN {"total_volume"} ELSE {})
    \cup (IF item.price_change_percentage_24h.t = "bad"
          THEN {"price_change_percentage_24h"} ELSE {})

\* CryptoData(**item).dict(): absent optional fields take their defaults
\* (market_cap = 0, total_volume = 0, price_change_percentage_24h = None); an
\* explicit null stays None.
CryptoDataDict(item) ==
    [id |-> item.id,
     symbol |-> item.symbol,
     name |-> item.name,
     current_price |-> item.current_price,
     market_cap |-> IF item.market_cap.t = "absent" THEN Num(0) ELSE item.market_cap,
     total_volume |-> IF item.total_volume.t = "absent" THEN Num(0) ELSE item.total_volume,
     price_change_percentage_24h |->
        IF item.price_change_percentage_24h.t = "absent" THEN Null
        ELSE item.price_change_percentage_24h]

---------------------------------------------------------------------------
(* utils/schema_converters.py: SchemaConverter.validate_raw_crypto_data *)

\* item.get('id', 'unknown') inside the except clause.
ItemIdOrUnknown(item) == IF item.id = ABSENT THEN "unknown" ELSE item.id

ValidationErrorMsg(item) ==
    Msg("Validation error for", ItemIdOrUnknown(item), CryptoDataErrors(item))

ValidateItem_SilentDrop(acc, item) ==
    IF ~item.mapping
    THEN [acc EXCEPT !.raised = TRUE,
                     !.exc = Msg("AttributeError", "get", {})]
    ELSE IF CryptoDataErrors(item) = {}
    THEN [acc EXCEPT !.validated = Append(@, CryptoDataDict(item))]
    ELSE acc

\* One iteration of the for loop on `item`, from the accumulators in acc.
\* CryptoData(**item) on an element that is not a mapping raises TypeError; the
\* except clause then evaluates item.get(...), which raises AttributeError out of
\* the method.
ValidateItem(acc, item) ==
    IF ~item.mapping
    THEN [acc EXCEPT !.raised = TRUE,
                     !.exc = Msg("AttributeError", "get", {})]
    ELSE IF CryptoDataErrors(item) = {}
    THEN [acc EXCEPT !.validated = Append(@, CryptoDataDict(item))]
    ELSE [acc EXCEPT !.errors = Append(@, ValidationErrorMsg(item))]

RECURSIVE ValidateLoop(_, _)
ValidateLoop(acc, raw) ==
    IF raw = <<>> \/ acc.raised THEN acc
    ELSE ValidateLoop(ValidateItem(acc, Head(raw)), Tail(raw))

\* Returns [raised, exc, validated, errors]; when raised, the caller sees only
\* the exception.
validate_raw_crypto_data(raw) ==
    ValidateLoop([raised |-> FALSE, exc |-> NoExc,
                  validated |-> <<>>, errors |-> <<>>], raw)

---------------------------------------------------------------------------
(* services/crypto_services.py: CryptoService *)

\* market_data[:10] in get_basic_crypto_data
IdScanLimit == 10
\* min(per_page, 50) in fetch_top_cryptos
PerPageCap == 50

\* A provider response to GET /coins/markets is [kind, data]: kind "ok" (2xx with
\* a JSON list), "ratelimit" (429), "httperror" (another non-2xx status) or
\* "transport" (session.get itself raises a RequestException).
\* r1 answers the first request, r2 the one sent after a 429.
fetch_top_cryptos(r1, r2) ==
    LET resp == IF r1.kind = "ratelimit" THEN r2 ELSE r1
    IN  IF r1.kind = "transport"
        THEN [raised |-> TRUE, exc |-> Msg("API Error", "transport", {}), data |-> <<>>]
        ELSE IF resp.kind = "transport"
        THEN [raised |-> TRUE, exc |-> Msg("API Error", "transport", {}), data |-> <<>>]
        ELSE IF resp.kind # "ok"
        THEN [raised |-> TRUE, exc |-> Msg("API Error", resp.kind, {}), data |-> <<>>]
        ELSE [raised |-> FALSE, exc |-> NoExc, data |-> resp.data]

\* A provider response to GET /simple/price is [kind, prices]: prices maps a coin
\* id to [usd_24h_change, usd_24h_vol], each Absent when the key is not there.
\* A RequestException is swallowed and {} returned.
fetch_simple_prices_with_change(coin_ids, sresp) ==
    IF sresp.kind = "ok" THEN sresp.prices ELSE EmptyDict

\* The body of the merge loop for one coin.
MergeCoin(coin, price_changes) ==
    IF coin.id \in DOMAIN price_changes
    THEN LET price_data == price_changes[coin.id]
             c1 == IF price_data.usd_24h_change.t # "absent"
                   THEN [coin EXCEPT !.price_change_percentage_24h =
                                         price_data.usd_24h_change]
                   ELSE coin
         IN  IF price_data.usd_24h_vol.t # "absent"
             THEN [c1 EXCEPT !.total_volume = price_data.usd_24h_vol]
             ELSE c1
    ELSE coin

\* for coin in market_data: coin['id'] raises on an element without an id (or
\* that is no mapping); the enclosing try swallows it and the coins merged so
\* far keep their merged fields.
RECURSIVE MergeLoop(_, _)
MergeLoop(market_data, price_changes) ==
    IF market_data = <<>> THEN <<>>
    ELSE IF ~Head(market_data).mapping \/ Head(market_data).id = ABSENT
    THEN market_data
    ELSE <<MergeCoin(Head(market_data), price_changes)>>
         \o MergeLoop(Tail(market_data), price_changes)

\* [coin['id'] for coin in market_data[:10]] raises TypeError on an element that
\* is no mapping and KeyError on a mapping without 'id'.
CoinIdsExc(market_data) ==
    LET scanned == Take(market_data, IdScanLimit)
        bad == {i \in 1..Len(scanned) :
                    ~scanned[i].mapping \/ scanned[i].id = ABSENT}
        first == CHOOSE i \in bad : \A j \in bad : i <= j
    IN  IF bad = {} THEN NoExc
        ELSE IF ~scanned[first].mapping THEN Msg("TypeError", "indices", {})
        ELSE Msg("KeyError", "id", {})

\* ','.join(coin_ids[:50]) raises TypeError when an id is None; the exception is
\* no RequestException, leaves fetch_simple_prices_with_change and is swallowed
\* by the inner try of get_basic_crypto_data: nothing is merged.
JoinRaises(market_data) ==
    \E i \in 1..Len(Take(market_data, IdScanLimit)) : market_data[i].id = NULLSTR

\* The default of fetch_top_cryptos' vs_currency parameter.
DefaultCurrency == "usd"

\* params of the GET /coins/markets request built by
\* fetch_top_cryptos(vs_currency, per_page, page).
ListingParams(vs_currency, per_page, page) ==
    [vs_currency |-> vs_currency, order |-> "market_cap_desc",
     per_page |-> Min(per_page, PerPageCap), page |-> page, sparkline |-> FALSE]

\* self.fetch_top_cryptos(per_page=num_coins) in get_basic_crypto_data: the
\* currency and the page are the defaults, whatever the request asked for.
ListingCall(num_coins, vs_currency) ==
    ListingParams(DefaultCurrency, num_coins, 1)

get_basic_crypto_data_SecondaryFatal(num_coins, r1, r2, sresp) ==
    LET fetched == fetch_top_cryptos(r1, r2)
        market_data == fetched.data
        ids_exc == CoinIdsExc(market_data)
    IN  IF fetched.raised
        THEN fetched @@ [primary |-> <<>>, secondary |-> "not_called"]
        ELSE IF ids_exc # NoExc
        THEN [raised |-> TRUE, exc |-> ids_exc, data |-> <<>>,
              primary |-> market_data, secondary |-> "not_called"]
        ELSE IF JoinRaises(market_data) \/ sresp.kind # "ok"
        THEN [raised |-> TRUE, exc |-> Msg("API Error", sresp.kind, {}), data |-> <<>>,
              primary |-> market_data, secondary |-> "failed"]
        ELSE [raised |-> FALSE, exc |-> NoExc,
              data |-> MergeLoop(market_data,
                                 fetch_simple_prices_with_change(market_data, sresp)),
              primary |-> market_data, secondary |-> "answered"]

\* Returns [raised, exc, data] and, for the record of the call, primary (the
\* listing fetch_top_cryptos returned) and secondary: "not_called", "failed"
\* (fetch_simple_prices_with_change raised, or caught a RequestException and
\* returned {}) or "answered".
get_basic_crypto_data(num_coins, r1, r2, sresp) ==
    LET fetched == fetch_top_cryptos(r1, r2)
        market_data == fetched.data
        ids_exc == CoinIdsExc(market_data)
    IN  IF fetched.raised
        THEN fetched @@ [primary |-> <<>>, secondary |-> "not_called"]
        ELSE IF ids_exc # NoExc
        THEN [raised |-> TRUE, exc |-> ids_exc, data |-> <<>>,
              primary |-> market_data, secondary |-> "not_called"]
        ELSE IF JoinRaises(market_data)
        THEN [raised |-> FALSE, exc |-> NoExc, data |-> market_data,
              primary |-> market_data, secondary |-> "failed"]
        ELSE [raised |-> FALSE, exc |-> NoExc,
              data |-> MergeLoop(market_data,
                                 fetch_simple_prices_with_change(market_data, sresp)),
              primary |-> market_data,
              secondary |-> IF sresp.kind = "ok" THEN "answered" ELSE "failed"]

---------------------------------------------------------------------------
(* utils/schema_converters.py: SchemaConverter.request_to_langgraph_state *)

request_to_langgraph_state(request) ==
    [num_coins |-> request.num_coins,
     vs_currency |-> request.vs_currency,
     raw_crypto_data |-> <<>>,
     validated_crypto_data |-> <<>>,
     analysis_results |-> EmptyDict,
     workflow_status |-> "starting",
     data_collection_status |-> "pending",
     analysis_status |-> "pending",
     has_price_changes |-> FALSE,
     warnings |-> <<>>,
     errors |-> <<>>]

---------------------------------------------------------------------------
(* agents/langgraph_workflow.py: the nodes *)

NoValidDataError == Msg("No valid crypto data after validation", "", {})
NoDataForAnalysisError ==
    Msg("No validated crypto data available for analysis", "", {})
HandlerWarning == Msg("Workflow completed with errors - check logs", "", {})

\* any(crypto.get("price_change_percentage_24h") is not None for crypto in data)
AnyPriceChange(data) ==
    \E i \in 1..Len(data) : ~IsNone(data[i].price_change_percentage_24h)

DataCollectionFailed_KeepStatus(s, e) ==
    [s EXCEPT !.errors = <<e>>]

DataCollectionFailed_DropMessage(s, e) ==
    [s EXCEPT !.data_collection_status = "failed"]

\* The except clause of data_collection_node.
DataCollectionFailed(s, e) ==
    [s EXCEPT !.data_collection_status = "failed",
              !.errors = <<e>>]

DataCollectionUpdate_FromRaw(s, raw_data, validated_data, validation_errors) ==
    LET s1 == [s EXCEPT !.raw_crypto_data = raw_data,
                        !.validated_crypto_data = validated_data,
                        !.data_collection_status = "completed",
                        !.has_price_changes =
                            \E i \in 1..Len(raw_data) :
                                raw_data[i].price_change_percentage_24h.t = "num"]
        s2 == IF validation_errors # <<>>
              THEN [s1 EXCEPT !.warnings = @ \o validation_errors]
              ELSE s1
    IN  IF validated_data = <<>>
        THEN [s2 EXCEPT !.data_collection_status = "failed",
                        !.errors = Append(@, NoValidDataError)]
        ELSE s2

DataCollectionUpdate_NoEmptyCheck(s, raw_data, validated_data, validation_errors) ==
    LET s1 == [s EXCEPT !.raw_crypto_data = raw_data,
                        !.validated_crypto_data = validated_data,
                        !.data_collection_status = "completed",
                        !.has_price_changes = AnyPriceChange(validated_data)]
    IN  IF validation_errors # <<>>
        THEN [s1 EXCEPT !.warnings = @ \o validation_errors]
        ELSE s1

DataCollectionUpdate_ErrorsNotWarnings(s, raw_data, validated_data, validation_errors) ==
    LET s1 == [s EXCEPT !.raw_crypto_data = raw_data,
                        !.validated_crypto_data = validated_data,
                        !.data_collection_status = "completed",
                        !.has_price_changes = AnyPriceChange(validated_data)]
        s2 == IF validation_errors # <<>>
              THEN [s1 EXCEPT !.errors = @ \o validation_errors]
              ELSE s1
    IN  IF validated_data = <<>>
        THEN [s2 EXCEPT !.data_collection_status = "failed",
                        !.errors = Append(@, NoValidDataError)]
        ELSE s2

\* The try body of data_collection_node once fetch and validation returned.
DataCollectionUpdate(s, raw_data, validated_data, validation_errors) ==
    LET s1 == [s EXCEPT !.raw_crypto_data = raw_data,
                        !.validated_crypto_data = validated_data,
                        !.data_collection_status = "completed",
                        !.has_price_changes = AnyPriceChange(validated_data)]
        s2 == IF validation_errors # <<>>
              THEN [s1 EXCEPT !.warnings = @ \o validation_errors]
              ELSE s1
    IN  IF validated_data = <<>>
        THEN [s2 EXCEPT !.data_collection_status = "failed",
                        !.errors = Append(@, NoValidDataError)]
        ELSE s2

\* What the environment does during one data_collection_node call is env:
\* import_ok, whether `from ..services.crypto_service import crypto_service`
\* resolves in the deployment (the gateway module of this tree is named
\* crypto_services, so the import can raise ModuleNotFoundError inside the try);
\* r1, r2, sresp, the provider's responses.
\* The exception that reaches the except clause, NoExc if none does.
DataCollectionExc(env, fetched, checked) ==
    IF ~env.import_ok THEN Msg("ModuleNotFoundError", "crypto_service", {})
    ELSE IF fetched.raised THEN fetched.exc
    ELSE IF checked.raised THEN checked.exc
    ELSE NoExc

\* The record of a run in which crypto_service.get_basic_crypto_data was not
\* called.
NoGatewayCall ==
    [raised |-> FALSE, exc |-> NoExc, data |-> <<>>,
     primary |-> <<>>, secondary |-> "not_called",
     called |-> FALSE, params |-> ListingParams("", 0, 0)]

\* Returns [state, exc, gw]: the state the node returns, the exception its
\* except clause caught (NoExc if none) and what the gateway call did, with
\* the params of its listing request.
data_collection_node(s, env) ==
    LET fetched == get_basic_crypto_data(s.num_coins, env.r1, env.r2, env.sresp)
        checked == validate_raw_crypto_data(fetched.data)
        e == DataCollectionExc(env, fetched, checked)
        called == IF env.import_ok
                  THEN fetched @@ [called |-> TRUE,
                                   params |-> ListingCall(s.num_coins, s.vs_currency)]
                  ELSE NoGatewayCall
    IN  IF e # NoExc
        THEN [state |-> DataCollectionFailed(s, e), exc |-> e, gw |-> called]
        ELSE [state |-> DataCollectionUpdate(s, fetched.data, checked.validated,
                                             checked.errors),
              exc |-> NoExc, gw |-> called]

\* [:5] in analysis_node
TopN == 5

\* sorted(crypto_data, key=market_cap, reverse=True): the sort is stable, so the
\* place of element i is one more than the number of elements with a larger
\* market_cap or with the same market_cap and an earlier index.
PlaceByMarketCap(data, i) ==
    1 + Cardinality({j \in 1..Len(data) :
                        \/ data[j].market_cap.v > data[i].market_cap.v
                        \/ data[j].market_cap.v = data[i].market_cap.v /\ j < i})

SortedByMarketCap(data) ==
    [k \in 1..Len(data) |->
        data[CHOOSE i \in 1..Len(data) : PlaceByMarketCap(data, i) = k]]

\* [crypto.get("price_change_percentage_24h", 0) for crypto in crypto_data
\*  if crypto.get("price_change_percentage_24h") is not None]
RECURSIVE PriceChanges(_)
PriceChanges(data) ==
    IF data = <<>> THEN <<>>
    ELSE (IF IsNone(Head(data).price_change_percentage_24h) THEN <<>>
          ELSE <<Head(data).price_change_percentage_24h.v>>)
         \o PriceChanges(Tail(data))

\* A quotient a / b of the code is kept exact, as the pair [num, den].
Ratio(a, b) == [num |-> a, den |-> b]

\* len([c for c in price_changes if c > 0]) and its counterpart for c < 0
CountPositive(seq) == Cardinality({i \in 1..Len(seq) : seq[i] > 0})
CountNegative(seq) == Cardinality({i \in 1..Len(seq) : seq[i] < 0})

\* The exception raised in the try body of analysis_node, NoExc if none is:
\* the explicit raise on empty data, or the TypeError of sum() when a validated
\* record holds market_cap = None (the key is present, so .get's default 0 is
\* not used).
AnalysisExc(s) ==
    LET crypto_data == s.validated_crypto_data
    IN  IF crypto_data = <<>> THEN NoDataForAnalysisError
        ELSE IF \E i \in 1..Len(crypto_data) : IsNone(crypto_data[i].market_cap)
        THEN Msg("TypeError", "unsupported operand type(s) for +: 'int' and 'NoneType'", {})
        ELSE NoExc

\* The analysis_results mapping the try body builds.
AnalysisResults(s) ==
    LET crypto_data == s.validated_crypto_data
        price_changes == PriceChanges(crypto_data)
        base ==
          [market_overview |->
             [total_cryptos_analyzed |-> Len(crypto_data),
              total_market_cap |->
                 SumSeq([i \in 1..Len(crypto_data) |-> crypto_data[i].market_cap.v]),
              average_price |->
                 Ratio(SumSeq([i \in 1..Len(crypto_data) |->
                                  crypto_data[i].current_price.v]),
                       Len(crypto_data))],
           top_performers |->
             [by_market_cap |-> Take(SortedByMarketCap(crypto_data), TopN)]]
    IN  IF s.has_price_changes /\ price_changes # <<>>
        THEN base @@
             [price_trends |->
                [average_24h_change |-> Ratio(SumSeq(price_changes), Len(price_changes)),
                 positive_movers |-> CountPositive(price_changes),
                 negative_movers |-> CountNegative(price_changes)]]
        ELSE base

\* The except clause of analysis_node.
AnalysisFailed(s, e) ==
    [s EXCEPT !.analysis_status = "failed",
              !.errors = <<e>>]

\* Returns [state, exc], as data_collection_node does.
analysis_node(s) ==
    LET e == AnalysisExc(s)
    IN  IF e # NoExc
        THEN [state |-> AnalysisFailed(s, e), exc |-> e]
        ELSE [state |-> [s EXCEPT !.analysis_results = AnalysisResults(s),
                                  !.analysis_status = "completed"],
              exc |-> NoExc]

error_handling_node_ResetWarnings(s) ==
    [s EXCEPT !.workflow_status = "completed_with_errors",
              !.warnings = <<HandlerWarning>>]

error_handling_node_ClearsFailure(s) ==
    [s EXCEPT !.workflow_status = "completed_with_errors",
              !.data_collection_status = "completed",
              !.analysis_status = "completed",
              !.warnings = Append(@, HandlerWarning)]

error_handling_node_DropsErrors(s) ==
    [s EXCEPT !.workflow_status = "completed_with_errors",
              !.errors = <<>>,
              !.warnings = Append(@, HandlerWarning)]

error_handling_node(s) ==
    LET s1 == [s EXCEPT !.workflow_status = "completed_with_errors"]
        s2 == IF s1.warnings = <<>> THEN [s1 EXCEPT !.warnings = <<>>] ELSE s1
    IN  [s2 EXCEPT !.warnings = Append(@, HandlerWarning)]

---------------------------------------------------------------------------
(* agents/langgraph_workflow.py: the routing functions and the graph *)

should_continue_to_analysis_NotPending(s) ==
    IF s.data_collection_status # "pending" THEN "analysis" ELSE "error_handler"

should_continue_to_analysis(s) ==
    IF s.data_collection_status = "completed" THEN "analysis" ELSE "error_handler"

\* check_workflow_completion returns a route and, on the END branch, assigns
\* workflow_status in the mapping it was handed: [route, arg] is the route and
\* that mapping after the call.
check_workflow_completion(s) ==
    IF s.analysis_status = "completed"
    THEN [route |-> "END", arg |-> [s EXCEPT !.workflow_status = "completed"]]
    ELSE [route |-> "error_handler", arg |-> s]

\* StateGraph semantics for a conditional edge: the routing function is called
\* on a mapping read afresh from the graph's channels, and only the node's
\* return value is written back to them. What the routing function assigns in
\* its argument is not part of the state the graph keeps.
StateAfterRouting(node_output, routed) == node_output

\* The path maps given to add_conditional_edges.
DataCollectionEdges == [analysis |-> "analysis", error_handler |-> "error_handler"]
AnalysisEdges == [END |-> "END", error_handler |-> "error_handler"]

---------------------------------------------------------------------------
(* main.py: run_analysis, and SchemaConverter.langgraph_state_to_response *)

NoResponse == [status |-> "none"]

\* generate_excel_report of main.py: the file name, "" when anything raised.
generate_excel_report(final_state, save_ok) ==
    IF save_ok THEN "crypto_analysis.xlsx" ELSE ""

langgraph_state_to_response_SuccessUnlessErrors(s) ==
    [status |-> IF s.workflow_status # "completed_with_errors" THEN "success" ELSE "error",
     message_count |-> Len(s.validated_crypto_data),
     data |-> [analysis_results |-> s.analysis_results,
               crypto_count |-> Len(s.validated_crypto_data),
               has_price_changes |-> s.has_price_changes,
               workflow_status |-> s.workflow_status],
     warnings |-> s.warnings]

langgraph_state_to_response(s) ==
    [status |-> IF s.workflow_status = "completed" THEN "success" ELSE "error",
     message_count |-> Len(s.validated_crypto_data),
     data |-> [analysis_results |-> s.analysis_results,
               crypto_count |-> Len(s.validated_crypto_data),
               has_price_changes |-> s.has_price_changes,
               workflow_status |-> s.workflow_status],
     warnings |-> s.warnings]

\* The try body of run_analysis after the workflow returned final_state.
run_analysis(final_state, save_ok) ==
    LET report_filename == generate_excel_report(final_state, save_ok)
        r == langgraph_state_to_response(final_state)
    IN  [r EXCEPT !.data = @ @@ [report_download_url |-> <<"/reports/", report_filename>>,
                                 report_filename |-> report_filename]]

---------------------------------------------------------------------------
(* The state mapping handed to the agents of the agents package *)

\* state.get(key, default)
Get(s, key, default) == IF key \in DOMAIN s THEN s[key] ELSE default

\* state[key] = value
Put(s, key, value) ==
    [k \in DOMAIN s \cup {key} |-> IF k = key THEN value ELSE s[k]]

\* Python truthiness of a validated number: None and 0 are false.
Truthy(x) == x.t = "num" /\ x.v # 0

---------------------------------------------------------------------------
(* agents/analysis_agent.py: AnalysisAgent *)

NoDataToAnalyzeError == Msg("No crypto data to analyze", "", {})
NoneOrderingError ==
    Msg("TypeError", "'>' not supported between instances of 'NoneType' and 'int'", {})

\* [float(coin["current_price"]) for coin in crypto_data if coin["current_price"]]
Prices(crypto_data) ==
    LET kept == SelectSeq(crypto_data, LAMBDA coin : Truthy(coin.current_price))
    IN  [i \in 1..Len(kept) |-> kept[i].current_price.v]

\* [int(coin["market_cap"]) for coin in crypto_data if coin["market_cap"]]
MarketCaps(crypto_data) ==
    LET kept == SelectSeq(crypto_data, LAMBDA coin : Truthy(coin.market_cap))
    IN  [i \in 1..Len(kept) |-> kept[i].market_cap.v]

\* [int(coin["total_volume"]) for coin in crypto_data if coin["total_volume"]]
Volumes(crypto_data) ==
    LET kept == SelectSeq(crypto_data, LAMBDA coin : Truthy(coin.total_volume))
    IN  [i \in 1..Len(kept) |-> kept[i].total_volume.v]

\* min(values) and max(values) of a non-empty sequence of numbers
MinOf(values) ==
    CHOOSE x \in {values[i] : i \in 1..Len(values)} :
        \A i \in 1..Len(values) : x <= values[i]
MaxOf(values) ==
    CHOOSE x \in {values[i] : i \in 1..Len(values)} :
        \A i \in 1..Len(values) : x >= values[i]

\* statistics.mean(values) of a non-empty sequence, kept exact
Mean(values) == Ratio(SumSeq(values), Len(values))

\* sorted(values)[k - 1]: the k-th smallest value
KthSmallest(values, k) ==
    values[CHOOSE i \in 1..Len(values) :
              1 + Cardinality({j \in 1..Len(values) :
                                  \/ values[j] < values[i]
                                  \/ values[j] = values[i] /\ j < i}) = k]

\* statistics.median(values) of a non-empty sequence: the middle value, or the
\* mean of the two middle values.
Median(values) ==
    LET n == Len(values)
    IN  IF n % 2 = 1 THEN Ratio(KthSmallest(values, (n + 1) \div 2), 1)
        ELSE Ratio(KthSmallest(values, n \div 2)
                   + KthSmallest(values, n \div 2 + 1), 2)

_analyze_market_overview(crypto_data) ==
    LET prices == Prices(crypto_data)
        market_caps == MarketCaps(crypto_data)
    IN  [total_cryptos_analyzed |-> Len(crypto_data),
         total_market_cap |-> SumSeq(market_caps),
         average_price |-> IF prices # <<>> THEN Mean(prices) ELSE Ratio(0, 1),
         median_price |-> IF prices # <<>> THEN Median(prices) ELSE Ratio(0, 1),
         price_range |-> [min |-> IF prices # <<>> THEN MinOf(prices) ELSE 0,
                          max |-> IF prices # <<>> THEN MaxOf(prices) ELSE 0]]

_analyze_price_trends(crypto_data) ==
    LET changes_24h == PriceChanges(crypto_data)
    IN  IF changes_24h = <<>>
        THEN [note |-> "No price change data available"]
        ELSE [average_24h_change |-> Mean(changes_24h),
              positive_movers |-> CountPositive(changes_24h),
              negative_movers |-> CountNegative(changes_24h),
              strongest_gain |-> MaxOf(changes_24h),
              biggest_loss |-> MinOf(changes_24h)]

\* max(crypto_data, key=total_volume)["name"]: the first record of the largest
\* volume.
HighestVolumeCrypto(crypto_data) ==
    crypto_data[CHOOSE i \in 1..Len(crypto_data) :
                   /\ \A j \in 1..Len(crypto_data) :
                         crypto_data[j].total_volume.v <= crypto_data[i].total_volume.v
                   /\ \A j \in 1..(i - 1) :
                         crypto_data[j].total_volume.v < crypto_data[i].total_volume.v].name

_analyze_volume(crypto_data) ==
    LET volumes == Volumes(crypto_data)
    IN  IF volumes = <<>>
        THEN [note |-> "Volume data not available"]
        ELSE [total_volume |-> SumSeq(volumes),
              average_volume |-> Mean(volumes),
              highest_volume_crypto |-> HighestVolumeCrypto(crypto_data)]

\* [coin for coin in crypto_data if coin.get("price_change_percentage_24h")]:
\* the filter is the value's truthiness, so a change of 0 is dropped with None.
WithChange(crypto_data) ==
    SelectSeq(crypto_data, LAMBDA coin : Truthy(coin.price_change_percentage_24h))

\* sorted(..., key=price_change_percentage_24h, reverse=True): stable, as
\* PlaceByMarketCap.
PlaceByChange(data, i) ==
    1 + Cardinality({j \in 1..Len(data) :
                        \/ data[j].price_change_percentage_24h.v
                              > data[i].price_change_percentage_24h.v
                        \/ /\ data[j].price_change_percentage_24h.v
                                 = data[i].price_change_percentage_24h.v
                           /\ j < i})

SortedByChange(data) ==
    [k \in 1..Len(data) |->
        data[CHOOSE i \in 1..Len(data) : PlaceByChange(data, i) = k]]

_find_top_performers(crypto_data) ==
    LET by_market_cap == Take(SortedByMarketCap(crypto_data), TopN)
        by_change == Take(SortedByChange(WithChange(crypto_data)), TopN)
    IN  [top_by_market_cap |->
            [i \in 1..Len(by_market_cap) |->
                [name |-> by_market_cap[i].name,
                 market_cap |-> by_market_cap[i].market_cap]],
         top_by_24h_change |->
            [i \in 1..Len(by_change) |->
                [name |-> by_change[i].name,
                 change |-> by_change[i].price_change_percentage_24h]]]

\* The exception raised in the try body of analyze_crypto_data, NoExc if none
\* is: the explicit raise on missing or empty crypto_data, or the TypeError of
\* max() or sorted() when they compare a None total_volume or market_cap (two
\* records or more; max() is reached only when some volume is truthy).
AnalyzeExc(s) ==
    LET crypto_data == Get(s, "crypto_data", <<>>)
    IN  IF crypto_data = <<>> THEN NoDataToAnalyzeError
        ELSE IF /\ Len(crypto_data) >= 2
                /\ \/ /\ Volumes(crypto_data) # <<>>
                      /\ \E i \in 1..Len(crypto_data) : IsNone(crypto_data[i].total_volume)
                   \/ \E i \in 1..Len(crypto_data) : IsNone(crypto_data[i].market_cap)
        THEN NoneOrderingError
        ELSE NoExc

\* The analysis_results mapping the try body of analyze_crypto_data builds.
AgentAnalysisResults(s) ==
    LET crypto_data == Get(s, "crypto_data", <<>>)
    IN  [market_overview |-> _analyze_market_overview(crypto_data),
         price_trends |-> IF Get(s, "has_price_changes", FALSE)
                          THEN _analyze_price_trends(crypto_data)
                          ELSE [note |-> "Price change data not available"],
         volume_analysis |-> _analyze_volume(crypto_data),
         top_performers |-> _find_top_performers(crypto_data)]

\* Returns [state, exc]: the mapping after the call and the exception caught.
analyze_crypto_data(s) ==
    LET e == AnalyzeExc(s)
    IN  IF e # NoExc
        THEN [state |-> Put(Put(s, "analysis_status", "failed"), "analysis_error", e),
              exc |-> e]
        ELSE [state |-> Put(Put(s, "analysis_results", AgentAnalysisResults(s)),
                            "analysis_status", "completed"),
              exc |-> NoExc]

---------------------------------------------------------------------------
(* agents/insights_agent.py: AIInsightsAgent *)

\* A text is the sequence of its characters. Bullet stands for the bullet
\* character U+2022.
Bullet == "bullet"
Newline == "\n"
Whitespace == {" ", "\t", "\r"}
Digits == {"0", "1", "2", "3", "4", "5", "6", "7", "8", "9"}

\* The characters of line.lstrip('0123456789.<bullet>- ')
PrefixChars == Digits \cup {".", Bullet, "-", " "}

\* insights[:4]
InsightLimit == 4

\* str.lstrip(chars) and str.rstrip(chars)
RECURSIVE LStrip(_, _)
LStrip(line, chars) ==
    IF line # <<>> /\ Head(line) \in chars THEN LStrip(Tail(line), chars) ELSE line

RECURSIVE RStrip(_, _)
RStrip(line, chars) ==
    IF line # <<>> /\ line[Len(line)] \in chars
    THEN RStrip(SubSeq(line, 1, Len(line) - 1), chars)
    ELSE line

\* str.strip()
Strip(line) == RStrip(LStrip(line, Whitespace), Whitespace)

\* ai_insights.split('\n')
RECURSIVE Split(_)
Split(text) ==
    IF \A i \in 1..Len(text) : text[i] # Newline THEN <<text>>
    ELSE LET i == CHOOSE k \in 1..Len(text) :
                    text[k] = Newline /\ \A j \in 1..(k - 1) : text[j] # Newline
         IN  <<SubSeq(text, 1, i - 1)>> \o Split(SubSeq(text, i + 1, Len(text)))

\* The for loop of _structure_insights over the lines.
RECURSIVE StructureLoop(_)
StructureLoop(lines) ==
    IF lines = <<>> THEN <<>>
    ELSE LET line == Strip(Head(lines))
             clean_line == Strip(LStrip(line, PrefixChars))
         IN  (IF /\ line # <<>>
                 /\ (line[1] \in Digits \/ line[1] = Bullet \/ line[1] = "-")
                 /\ clean_line # <<>>
              THEN <<clean_line>> ELSE <<>>)
             \o StructureLoop(Tail(lines))

_structure_insights_NoLimit(ai_insights) == StructureLoop(Split(ai_insights))

_structure_insights(ai_insights) ==
    Take(StructureLoop(Split(ai_insights)), InsightLimit)

\* A statement of the fallback: which f-string it is and the numbers formatted
\* into it, each kept exact as a Ratio.
Statement(kind, values) == [kind |-> kind, values |-> values]

_generate_fallback_insights(s) ==
    LET analysis_results == Get(s, "analysis_results", EmptyDict)
        market_overview == Get(analysis_results, "market_overview", EmptyDict)
        price_trends == Get(analysis_results, "price_trends", EmptyDict)
        insights ==
          <<Statement("coverage",
                      <<Ratio(Get(market_overview, "total_cryptos_analyzed", 0), 1),
                        Ratio(Get(market_overview, "total_market_cap", 0), 1)>>),
            Statement("average_price",
                      <<Get(market_overview, "average_price", Ratio(0, 1))>>)>>
    IN  IF DOMAIN price_trends # {}
        THEN LET avg_change == Get(price_trends, "average_24h_change", Ratio(0, 1))
             IN  IF avg_change.num > 0
                 THEN Append(insights, Statement("positive_momentum", <<avg_change>>))
                 ELSE Append(insights, Statement("bearish_sentiment", <<avg_change>>))
        ELSE insights

\* The remote text-generation call: it raises, or it answers with a text.
RemoteError == Msg("APIConnectionError", "Connection error.", {})
NoneFormatError ==
    Msg("TypeError", "unsupported format string passed to NoneType.__format__", {})

\* The exception raised in the try body of generate_insights, NoExc if none
\* is: the formatting of a None market_cap of one of the first three records of
\* top_performers.by_market_cap in _create_market_summary, or the remote call.
InsightsExc(s, answer) ==
    LET analysis_results == Get(s, "analysis_results", EmptyDict)
        top_performers ==
            Take(Get(Get(analysis_results, "top_performers", EmptyDict),
                     "by_market_cap", <<>>), 3)
    IN  IF \E i \in 1..Len(top_performers) : IsNone(top_performers[i].market_cap)
        THEN NoneFormatError
        ELSE IF answer.kind = "error" THEN RemoteError
        ELSE NoExc

generate_insights_KeepsOldInsights(s, answer) ==
    LET e == InsightsExc(s, answer)
    IN  IF e # NoExc
        THEN [state |-> Put(Put(s, "insights_status", "failed"), "insights_error", e),
              exc |-> e]
        ELSE [state |-> Put(Put(s, "ai_insights", _structure_insights(answer.text)),
                            "insights_status", "completed"),
              exc |-> NoExc]

\* Returns [state, exc]: the mapping after the call and the exception caught.
generate_insights(s, answer) ==
    LET e == InsightsExc(s, answer)
        failed == Put(Put(s, "insights_status", "failed"), "insights_error", e)
    IN  IF e # NoExc
        THEN [state |-> Put(failed, "ai_insights", _generate_fallback_insights(failed)),
              exc |-> e]
        ELSE [state |-> Put(Put(s, "ai_insights", _structure_insights(answer.text)),
                            "insights_status", "completed"),
              exc |-> NoExc]

---------------------------------------------------------------------------
(* agents/report_agent.py: ReportGenerationAgent *)

CellValueError == Msg("ValueError", "Cannot convert mapping to Excel", {})
SaveError == Msg("OSError", "reports", {})

\* The exception raised in the try body of generate_excel_report, NoExc if
\* none is: a summary value that is itself a mapping (price_range) cannot be
\* written to a cell; wb.save fails.
ReportExc(s, save_ok) ==
    LET summary == Get(Get(s, "analysis_results", EmptyDict), "market_overview", EmptyDict)
    IN  IF "price_range" \in DOMAIN summary THEN CellValueError
        ELSE IF ~save_ok THEN SaveError
        ELSE NoExc

ReportFailed_ResetsVerdict(s, e) ==
    Put(Put(Put(s, "report_status", "failed"), "report_error", e),
        "workflow_status", "completed_with_errors")

\* The except clause of ReportGenerationAgent.generate_excel_report.
ReportFailed(s, e) == Put(Put(s, "report_status", "failed"), "report_error", e)

\* ReportGenerationAgent.generate_excel_report; returns [state, exc].
ReportAgent_generate_excel_report(s, save_ok) ==
    LET e == ReportExc(s, save_ok)
    IN  IF e # NoExc
        THEN [state |-> ReportFailed(s, e), exc |-> e]
        ELSE [state |-> Put(Put(s, "report_path", "reports/crypto_analysis.xlsx"),
                            "report_status", "completed"),
              exc |-> NoExc]

---------------------------------------------------------------------------
(* agents/visualization_agent.py: VisualizationAgent *)

NoDataForChartsError == Msg("No crypto data available for visualization", "", {})
DrawError == Msg("OSError", "reports/charts", {})

\* The exception raised in the try body of generate_charts, NoExc if none is:
\* the explicit raise on empty data; a failure of the plotting library or of
\* the file system.
ChartsExc(s, draw_ok) ==
    IF Get(s, "validated_crypto_data", <<>>) = <<>> THEN NoDataForChartsError
    ELSE IF ~draw_ok THEN DrawError
    ELSE NoExc

\* chart_paths as the try body of generate_charts collects them.
ChartPaths(s) ==
    LET crypto_data == Get(s, "validated_crypto_data", <<>>)
        market_overview ==
            Get(Get(s, "analysis_results", EmptyDict), "market_overview", EmptyDict)
    IN  <<"market_cap_distribution">>
        \o (IF Get(s, "has_price_changes", FALSE) /\ PriceChanges(crypto_data) # <<>>
            THEN <<"price_changes">> ELSE <<>>)
        \o (IF DOMAIN market_overview # {} THEN <<"market_distribution">> ELSE <<>>)

\* Returns [state, exc].
generate_charts(s, draw_ok) ==
    LET e == ChartsExc(s, draw_ok)
    IN  IF e # NoExc
        THEN [state |-> Put(Put(s, "visualization_status", "failed"),
                            "visualization_error", e),
              exc |-> e]
        ELSE [state |-> Put(Put(s, "chart_paths", ChartPaths(s)),
                            "visualization_status", "completed"),
              exc |-> NoExc]

---------------------------------------------------------------------------
(* The environment: requests and provider responses explored *)

Item(id, symbol, price, cap, change) ==
    [mapping |-> TRUE, id |-> id, symbol |-> symbol, name |-> symbol,
     current_price |-> price, market_cap |-> cap, total_volume |-> Num(1),
     price_change_percentage_24h |-> change]

\* A listing element that is not a mapping (a bare string, say).
NotAMapping == [Item("", "", Absent, Absent, Absent) EXCEPT !.mapping = FALSE]

ValidItems ==
    {Item("btc", "BTC", Num(1), cap, change) :
        cap \in {Null, Num(1), Num(2)}, change \in {Null, Num(0 - 1)}}
    \cup {Item("eth", "ETH", Num(2), cap, change) :
              cap \in {Absent, Num(1)}, change \in {Null, Num(1)}}

RejectedItems ==
    {Item("btc", ABSENT, Num(1), Num(1), Num(1)),
     Item("eth", "ETH", Bad, Num(2), Null),
     Item(NULLSTR, "XRP", Num(1), Num(1), Null)}

\* Elements on which get_basic_crypto_data itself raises.
UnreadableItems == {Item(ABSENT, "ADA", Num(1), Num(1), Null), NotAMapping}

RawItems == ValidItems \cup RejectedItems \cup UnreadableItems

SeqsUpTo(S, n) == UNION {[1..k -> S] : k \in 0..n}

\* A request asks for a short listing or for one element more than
\* get_basic_crypto_data scans for ids.
Requests == [num_coins : (1..MaxRaw) \cup {IdScanLimit + 1}, vs_currency : {"usd", "eur"}]

Price(change, vol) == [usd_24h_change |-> change, usd_24h_vol |-> vol]

PriceMaps ==
    {EmptyDict,
     [k \in {"btc"} |-> Price(Num(0 - 1), Num(3))],
     [k \in {"btc", "eth"} |-> IF k = "btc" THEN Price(Num(0), Absent)
                                            ELSE Price(Num(2), Num(3))],
     [k \in {"eth"} |-> Price(Absent, Num(3))]}

SecondaryResponses ==
    {[kind |-> "transport", prices |-> EmptyDict]}
    \cup {[kind |-> "ok", prices |-> m] : m \in PriceMaps}

FailureResponses ==
    {[kind |-> k, data |-> <<>>] : k \in {"ratelimit", "httperror", "transport"}}

\* Listings longer than the id scan: one valid element repeated, then any element.
LongListings ==
    {[i \in 1..(IdScanLimit + 1) |-> IF i <= IdScanLimit THEN v ELSE x] :
        v \in ValidItems, x \in RawItems}

\* The provider lists at most per_page = min(num_coins, 50) elements.
Listings(num_coins) ==
    LET per_page == Min(num_coins, PerPageCap)
    IN  {[kind |-> "ok", data |-> d] :
            d \in SeqsUpTo(RawItems, Min(per_page, MaxRaw))
                   \cup {l \in LongListings : Len(l) <= per_page}}

AnySecondary == CHOOSE r \in SecondaryResponses : r.kind = "transport"
AnyFailure == CHOOSE r \in FailureResponses : r.kind = "transport"

\* One environment per distinguishable course of a data_collection_node call:
\* the import fails; the first request fails; the first is rate limited and the
\* second fails; or a listing arrives (first or second request) and the
\* secondary call is answered.
Environments(num_coins) ==
    {[import_ok |-> FALSE, r1 |-> AnyFailure, r2 |-> AnyFailure, sresp |-> AnySecondary]}
    \cup {[import_ok |-> TRUE, r1 |-> f, r2 |-> AnyFailure, sresp |-> AnySecondary] :
              f \in {g \in FailureResponses : g.kind # "ratelimit"}}
    \cup {[import_ok |-> TRUE, r1 |-> [kind |-> "ratelimit", data |-> <<>>],
            r2 |-> f, sresp |-> AnySecondary] : f \in FailureResponses}
    \cup {[import_ok |-> TRUE, r1 |-> l, r2 |-> AnyFailure, sresp |-> sr] :
              l \in Listings(num_coins), sr \in SecondaryResponses}
    \cup {[import_ok |-> TRUE, r1 |-> [kind |-> "ratelimit", data |-> <<>>],
            r2 |-> l, sresp |-> sr] :
              l \in Listings(num_coins), sr \in SecondaryResponses}

---------------------------------------------------------------------------
(* The run of one request: crypto_workflow.ainvoke inside run_analysis *)

NotRun == [raised |-> FALSE, exc |-> NoExc, validated |-> <<>>, errors |-> <<>>,
           ran |-> FALSE]

\* No agent is called on its own in this run.
NoRemote == [kind |-> "none", text |-> <<>>]

AgentsIdle ==
    /\ aPc = "idle"
    /\ aState = EmptyDict
    /\ remote = NoRemote

\* The gateway is not followed in time in this run: crypto_service as
\* constructed, and no caller.
GatewayUntimed ==
    /\ now = 0
    /\ last_request_time = 0
    /\ thread = EmptyDict
    /\ calls = <<>>
    /\ sent = <<>>

Init ==
    /\ pc = "START"
    /\ \E request \in Requests : state = request_to_langgraph_state(request)
    /\ visited = <<>>
    /\ caught = <<>>
    /\ response = NoResponse
    /\ gw = NoGatewayCall
    /\ vIn = <<>>
    /\ vOut = NotRun
    /\ AgentsIdle
    /\ GatewayUntimed

\* workflow.add_edge(START, "data_collection")
StartStep ==
    /\ pc = "START"
    /\ pc' = "data_collection"
    /\ UNCHANGED <<state, visited, caught, response, gw, harness, gateway>>

\* The data_collection node and its conditional edge.
DataCollectionStep ==
    /\ pc = "data_collection"
    /\ \E env \in Environments(state.num_coins) :
          LET out == data_collection_node(state, env)
          IN  /\ state' = StateAfterRouting(out.state, out.state)
              /\ pc' = DataCollectionEdges[should_continue_to_analysis(out.state)]
              /\ caught' = IF out.exc # NoExc
                           THEN Append(caught, [node |-> "data_collection",
                                                exc |-> out.exc])
                           ELSE caught
              /\ gw' = out.gw
    /\ visited' = Append(visited, "data_collection")
    /\ UNCHANGED <<response, harness, gateway>>

\* The analysis node and its conditional edge.
AnalysisStep ==
    /\ pc = "analysis"
    /\ LET out == analysis_node(state)
           routed == check_workflow_completion(out.state)
       IN  /\ state' = StateAfterRouting(out.state, routed.arg)
           /\ pc' = AnalysisEdges[routed.route]
           /\ caught' = IF out.exc # NoExc
                        THEN Append(caught, [node |-> "analysis", exc |-> out.exc])
                        ELSE caught
    /\ visited' = Append(visited, "analysis")
    /\ UNCHANGED <<response, gw, harness, gateway>>

\* The error_handler node and workflow.add_edge("error_handler", END).
ErrorHandlerStep ==
    /\ pc = "error_handler"
    /\ state' = error_handling_node(state)
    /\ pc' = "END"
    /\ visited' = Append(visited, "error_handler")
    /\ UNCHANGED <<caught, response, gw, harness, gateway>>

\* ainvoke returned: run_analysis renders the report and builds the response.
RespondStep ==
    /\ pc = "END"
    /\ \E save_ok \in BOOLEAN : response' = run_analysis(state, save_ok)
    /\ pc' = "responded"
    /\ UNCHANGED <<state, visited, caught, gw, harness, gateway>>

Next ==
    \/ StartStep
    \/ DataCollectionStep
    \/ AnalysisStep
    \/ ErrorHandlerStep
    \/ RespondStep

Spec == Init /\ [][Next]_vars

---------------------------------------------------------------------------
(* SchemaConverter.validate_raw_crypto_data called on its own *)

InitValidator ==
    /\ pc = "validator"
    /\ state = request_to_langgraph_state([num_coins |-> 1, vs_currency |-> "usd"])
    /\ visited = <<>>
    /\ caught = <<>>
    /\ response = NoResponse
    /\ gw = NoGatewayCall
    /\ vIn \in SeqsUpTo(RawItems, MaxBatch)
    /\ vOut = NotRun
    /\ AgentsIdle
    /\ GatewayUntimed

ValidateCall ==
    /\ pc = "validator"
    /\ ~vOut.ran
    /\ vOut' = validate_raw_crypto_data(vIn) @@ [ran |-> TRUE]
    /\ UNCHANGED <<workflow, vIn, agents, gateway>>

NextValidator == ValidateCall

SpecValidator == InitValidator /\ [][NextValidator]_vars

---------------------------------------------------------------------------
(* The agents of agents/analysis_agent.py, insights_agent.py, report_agent.py *)
(* and visualization_agent.py, called in turn on one state mapping           *)

\* A validated record, as CryptoData(**item).dict() yields it.
Coin(name, price, cap, volume, change) ==
    [id |-> name, symbol |-> name, name |-> name, current_price |-> Num(price),
     market_cap |-> cap, total_volume |-> volume,
     price_change_percentage_24h |-> change]

AgentCoins ==
    {Coin("a", 1, Num(5), Num(3), Num(2)),
     Coin("b", 2, Num(7), Num(3), Num(0)),
     Coin("c", 2, Num(5), Num(0), Num(0 - 1)),
     Coin("d", 1, Num(0), Num(3), Null),
     Coin("e", 2, Null, Null, Num(2))}

\* Batches of more than five records that carry a change, with ties.
LongChanges ==
    {<<Num(1), Num(3), Null, Num(3), Num(0 - 2), Num(2), Num(4), Num(0)>>,
     <<Num(0), Num(0 - 1), Num(0 - 1), Num(0 - 3), Null, Num(0 - 2), Num(0 - 4)>>}

LongNames == <<"l1", "l2", "l3", "l4", "l5", "l6", "l7", "l8">>

LongBatches ==
    {[i \in 1..Len(changes) |-> Coin(LongNames[i], i, Num(i % 3), Num(i), changes[i])] :
        changes \in LongChanges}

AgentBatches == SeqsUpTo(AgentCoins, MaxCoins) \cup LongBatches

\* The validation messages of the data collection: none, or those of one
\* rejected element.
AgentValidationErrors ==
    {<<>>, <<ValidationErrorMsg(Item("btc", ABSENT, Num(1), Num(1), Num(1)))>>}

\* The mapping the agents are handed: the state of a request after the data
\* collection stored a validated batch. workflow_status is as the request
\* conversion sets it or as check_workflow_completion assigns it; keyed says
\* whether the caller also stores the batch under crypto_data, the key
\* AnalysisAgent reads.
AgentInput(batch, validation_errors, workflow_status, keyed) ==
    LET request == [num_coins |-> IF batch = <<>> THEN 1 ELSE Len(batch),
                    vs_currency |-> "usd"]
        collected == DataCollectionUpdate(request_to_langgraph_state(request),
                                          batch, batch, validation_errors)
        s == [collected EXCEPT !.workflow_status = workflow_status]
    IN  IF keyed THEN Put(s, "crypto_data", batch) ELSE s

\* The graph from the conditional edge after data_collection to END, on the
\* mapping s.
GraphAfterCollection(s) ==
    IF should_continue_to_analysis(s) = "analysis"
    THEN LET out == analysis_node(s)
             routed == check_workflow_completion(out.state)
         IN  IF routed.route = "END"
             THEN StateAfterRouting(out.state, routed.arg)
             ELSE error_handling_node(out.state)
    ELSE error_handling_node(s)

RemoteTexts ==
    {<<"1", ".", " ", "u", "p", Newline, "-", " ", "d", "n">>,
     <<"n", "o", "n", "e">>}

RemoteOutcomes ==
    {[kind |-> "error", text |-> <<>>]}
    \cup {[kind |-> "text", text |-> t] : t \in RemoteTexts}

AgentsStart ==
    /\ state = request_to_langgraph_state([num_coins |-> 1, vs_currency |-> "usd"])
    /\ visited = <<>>
    /\ caught = <<>>
    /\ response = NoResponse
    /\ gw = NoGatewayCall
    /\ vIn = <<>>
    /\ vOut = NotRun
    /\ GatewayUntimed

InitAgents ==
    /\ pc = "agents"
    /\ AgentsStart
    /\ aPc = "analysis"
    /\ \E batch \in AgentBatches, validation_errors \in AgentValidationErrors,
          status \in {"starting", "completed"}, keyed \in BOOLEAN :
          aState = AgentInput(batch, validation_errors, status, keyed)
    /\ remote \in RemoteOutcomes

\* AnalysisAgent.analyze_crypto_data(state)
AnalyzeCall ==
    /\ aPc = "analysis"
    /\ aState' = analyze_crypto_data(aState).state
    /\ aPc' = "insights"
    /\ UNCHANGED <<workflow, vIn, vOut, remote, gateway>>

\* The analysis of the graph instead: analysis_node and what follows it.
GraphAnalysisCall ==
    /\ aPc = "analysis"
    /\ aState' = GraphAfterCollection(aState)
    /\ aPc' = "insights"
    /\ UNCHANGED <<workflow, vIn, vOut, remote, gateway>>

\* AIInsightsAgent.generate_insights(state)
InsightsCall ==
    /\ aPc = "insights"
    /\ aState' = generate_insights(aState, remote).state
    /\ aPc' = "report"
    /\ UNCHANGED <<workflow, vIn, vOut, remote, gateway>>

\* ReportGenerationAgent.generate_excel_report(state)
ReportCall ==
    /\ aPc = "report"
    /\ \E save_ok \in BOOLEAN :
          aState' = ReportAgent_generate_excel_report(aState, save_ok).state
    /\ aPc' = "charts"
    /\ UNCHANGED <<workflow, vIn, vOut, remote, gateway>>

\* VisualizationAgent.generate_charts(state)
ChartsCall ==
    /\ aPc = "charts"
    /\ \E draw_ok \in BOOLEAN : aState' = generate_charts(aState, draw_ok).state
    /\ aPc' = "convert"
    /\ UNCHANGED <<workflow, vIn, vOut, remote, gateway>>

\* SchemaConverter.langgraph_state_to_response(state)
ConvertCall ==
    /\ aPc = "convert"
    /\ response' = langgraph_state_to_response(aState)
    /\ aPc' = "done"
    /\ UNCHANGED <<pc, state, visited, caught, gw, vIn, vOut, aState, remote, gateway>>

NextAgents ==
    \/ AnalyzeCall
    \/ GraphAnalysisCall
    \/ InsightsCall
    \/ ReportCall
    \/ ChartsCall
    \/ ConvertCall

SpecAgents == InitAgents /\ [][NextAgents]_vars

---------------------------------------------------------------------------
(* AIInsightsAgent.generate_insights on the remote response texts *)

\* Lines with and without a numbered, bulleted or dashed prefix, with blanks
\* around them, and a line that is nothing but its prefix.
ParserLines ==
    {<<>>,
     <<"-", " ", "a">>,
     <<" ", "1", ".", " ", "c", " ">>,
     <<Bullet, "b">>,
     <<"-", " ">>,
     <<"a", "-">>}

\* '\n'.join(lines)
RECURSIVE JoinLines(_)
JoinLines(lines) ==
    IF lines = <<>> THEN <<>>
    ELSE IF Len(lines) = 1 THEN Head(lines)
    ELSE Head(lines) \o <<Newline>> \o JoinLines(Tail(lines))

InitParser ==
    /\ pc = "parser"
    /\ AgentsStart
    /\ aPc = "insights"
    /\ aState = GraphAfterCollection(
                    AgentInput(<<Coin("a", 1, Num(5), Num(3), Num(2))>>, <<>>,
                               "starting", FALSE))
    /\ \E lines \in SeqsUpTo(ParserLines, MaxLines) :
          remote = [kind |-> "text", text |-> JoinLines(lines)]

NextParser == InsightsCall

SpecParser == InitParser /\ [][NextParser]_vars

---------------------------------------------------------------------------
(* services/crypto_services.py: the rate limiter and the requests, in time *)

\* self.rate_limit_delay = 2.5 and time.sleep(120), in clock units of half a
\* time unit.
RateLimitDelay == 5
Cooldown == 240

\* The gateway methods that send requests.
GatewayCalls == {"fetch_top_cryptos", "fetch_simple_prices_with_change"}

\* What the provider (or the transport) answers to one request.
ResponseKinds == {"ok", "ratelimit", "httperror", "transport"}

\* A caller outside any gateway call.
Idle == [pc |-> "idle", wake |-> 0, cur |-> 0]

AfterResponse_RetryAnyFailure(call, attempt, kind) ==
    IF call = "fetch_top_cryptos" /\ attempt = 1 /\ kind # "ok"
    THEN "cooldown" ELSE "done"

\* What a gateway call does with the response to its attempt-th request:
\* `if response.status_code == 429` follows the first session.get of
\* fetch_top_cryptos only.
AfterResponse(call, attempt, kind) ==
    IF call = "fetch_top_cryptos" /\ attempt = 1 /\ kind = "ratelimit"
    THEN "cooldown" ELSE "done"

\* How the call ends once its last response is in: fetch_top_cryptos raises
\* unless that response is a 2xx; fetch_simple_prices_with_change returns
\* (its data, or {} on a RequestException).
CallResult(call, requests) ==
    IF call = "fetch_simple_prices_with_change" THEN "returned"
    ELSE LET r1 == [kind |-> requests[1].resp, data |-> <<>>]
             r2 == IF Len(requests) > 1
                   THEN [kind |-> requests[2].resp, data |-> <<>>]
                   ELSE AnyFailure
         IN  IF fetch_top_cryptos(r1, r2).raised THEN "raised" ELSE "returned"

\* crypto_service as constructed (last_request_time = 0), read by the clock long
\* after the epoch, and the callers that share it.
GatewayStart(callers) ==
    /\ pc = "gateway"
    /\ state = request_to_langgraph_state([num_coins |-> 1, vs_currency |-> "usd"])
    /\ visited = <<>>
    /\ caught = <<>>
    /\ response = NoResponse
    /\ gw = NoGatewayCall
    /\ vIn = <<>>
    /\ vOut = NotRun
    /\ AgentsIdle
    /\ now = RateLimitDelay
    /\ last_request_time = 0
    /\ thread = [c \in callers |-> Idle]
    /\ calls = <<>>
    /\ sent = <<>>

\* One pipeline instance calls the gateway.
InitGateway == GatewayStart({"request-1"})

\* Two pipeline instances, each in its own worker thread, call the one
\* crypto_service.
InitShared == GatewayStart({"request-1", "request-2"})

\* A caller enters fetch_top_cryptos or fetch_simple_prices_with_change.
BeginCall(c) ==
    /\ thread[c].pc = "idle"
    /\ Len(calls) < MaxCalls
    /\ \E call \in GatewayCalls :
          calls' = Append(calls, [caller |-> c, call |-> call,
                                  requests |-> <<>>, result |-> "running"])
    /\ thread' = [thread EXCEPT ![c] = [pc |-> "check", wake |-> 0,
                                        cur |-> Len(calls) + 1]]
    /\ UNCHANGED <<now, last_request_time, sent, workflow, harness>>

\* _respect_rate_limit up to the sleep: reads the clock and last_request_time.
CheckDelay(c) ==
    /\ thread[c].pc = "check"
    /\ LET current_time == now
           time_since_last == current_time - last_request_time
           sleep_time == RateLimitDelay - time_since_last
       IN  thread' = IF time_since_last < RateLimitDelay
                     THEN [thread EXCEPT ![c].pc = "sleeping",
                                         ![c].wake = current_time + sleep_time]
                     ELSE [thread EXCEPT ![c].pc = "stamp"]
    /\ UNCHANGED <<now, last_request_time, calls, sent, workflow, harness>>

\* time.sleep(sleep_time) returns.
WakeUp(c) ==
    /\ thread[c].pc = "sleeping"
    /\ now >= thread[c].wake
    /\ thread' = [thread EXCEPT ![c].pc = "stamp"]
    /\ UNCHANGED <<now, last_request_time, calls, sent, workflow, harness>>

\* self.last_request_time = time.time(), and the session.get that follows it.
Dispatch(c) ==
    /\ thread[c].pc = "stamp"
    /\ last_request_time' = now
    /\ calls' = [calls EXCEPT ![thread[c].cur].requests =
                    Append(@, [at |-> now, resp |-> "pending", got |-> now])]
    /\ sent' = Append(sent, [caller |-> c, at |-> now])
    /\ thread' = [thread EXCEPT ![c].pc = "await"]
    /\ UNCHANGED <<now, workflow, harness>>

\* session.get returns a response or raises; on a first 429 fetch_top_cryptos
\* goes into time.sleep(120), otherwise the call ends.
Respond(c) ==
    /\ thread[c].pc = "await"
    /\ \E kind \in ResponseKinds :
          LET call == calls[thread[c].cur]
              attempt == Len(call.requests)
              requests == [call.requests EXCEPT ![attempt].resp = kind,
                                                ![attempt].got = now]
          IN  IF AfterResponse(call.call, attempt, kind) = "cooldown"
              THEN /\ calls' = [calls EXCEPT ![thread[c].cur].requests = requests]
                   /\ thread' = [thread EXCEPT ![c].pc = "cooldown",
                                               ![c].wake = now + Cooldown]
              ELSE /\ calls' = [calls EXCEPT
                                  ![thread[c].cur].requests = requests,
                                  ![thread[c].cur].result =
                                      CallResult(call.call, requests)]
                   /\ thread' = [thread EXCEPT ![c] = Idle]
    /\ UNCHANGED <<now, last_request_time, sent, workflow, harness>>

\* time.sleep(120) returns and fetch_top_cryptos sends its second session.get.
Retry(c) ==
    /\ thread[c].pc = "cooldown"
    /\ now >= thread[c].wake
    /\ calls' = [calls EXCEPT ![thread[c].cur].requests =
                    Append(@, [at |-> now, resp |-> "pending", got |-> now])]
    /\ sent' = Append(sent, [caller |-> c, at |-> now])
    /\ thread' = [thread EXCEPT ![c].pc = "await"]
    /\ UNCHANGED <<now, last_request_time, workflow, harness>>

\* Time passes while the callers compute or wait for the provider.
Tick ==
    /\ now < MaxClock
    /\ now' = now + 1
    /\ UNCHANGED <<last_request_time, thread, calls, sent, workflow, harness>>

\* Time passes until the first sleeping caller is due.
Elapse ==
    LET due == {thread[c].wake : c \in {d \in DOMAIN thread :
                                          /\ thread[d].pc \in {"sleeping", "cooldown"}
                                          /\ thread[d].wake > now}}
    IN  /\ due # {}
        /\ now' = CHOOSE t \in due : \A u \in due : t <= u
        /\ UNCHANGED <<last_request_time, thread, calls, sent, workflow, harness>>

NextGateway ==
    \/ \E c \in DOMAIN thread : BeginCall(c)
    \/ \E c \in DOMAIN thread : CheckDelay(c)
    \/ \E c \in DOMAIN thread : WakeUp(c)
    \/ \E c \in DOMAIN thread : Dispatch(c)
    \/ \E c \in DOMAIN thread : Respond(c)
    \/ \E c \in DOMAIN thread : Retry(c)
    \/ Tick
    \/ Elapse

SpecGateway == InitGateway /\ [][NextGateway]_vars

SpecShared == InitShared /\ [][NextGateway]_vars

---------------------------------------------------------------------------
(* Properties *)

Range(seq) == {seq[i] : i \in 1..Len(seq)}

Finished == pc \in {"END", "responded"}

\* The exceptions caught so far by the except clause of `node`.
CaughtIn(node) == {c \in Range(caught) : c.node = node}

\* The k-th smallest element of a set of indices.
KthIndex(S, k) == CHOOSE i \in S : Cardinality({j \in S : j < i}) = k - 1

\* C1: after data_collection has run, the next stage is analysis if and only
\* if data_collection_status = "completed" (and then the validated sequence is
\* not empty); otherwise the next stage is error_handler and analysis never
\* runs in the run.
C1_CollectionRouting ==
    /\ (visited # <<>> => visited[1] = "data_collection")
    /\ (Len(visited) = 1 =>
          /\ (pc = "analysis") <=> (state.data_collection_status = "completed")
          /\ (pc = "error_handler") <=> (state.data_collection_status # "completed"))
    /\ ("analysis" \in Range(visited) =>
          /\ state.data_collection_status = "completed"
          /\ state.validated_crypto_data # <<>>)
    /\ (visited # <<>> /\ state.data_collection_status # "completed" =>
          /\ "analysis" \notin Range(visited)
          /\ pc # "analysis")

C1_Witness ==
    /\ visited = <<"data_collection">>
    /\ pc = "analysis"
    /\ state.data_collection_status = "completed"

\* C2 (as claimed): when the analysis stage ends with analysis_status =
\* "completed" the run goes from analysis to done and the final state handed to
\* response conversion has workflow_status = "completed"; otherwise the run
\* goes from analysis to error_handler.
C2_CompletedVerdict ==
    /\ (Len(visited) = 2 /\ visited[2] = "analysis" =>
          IF state.analysis_status = "completed"
          THEN pc \in {"END", "responded"}
          ELSE pc = "error_handler")
    /\ (Finished /\ state.analysis_status = "completed" =>
          state.workflow_status = "completed")

\* C3: a run of error_handler sets workflow_status = "completed_with_errors",
\* appends exactly one warning after the warnings already there and goes to
\* done; error_handler runs at most once and only right after data_collection
\* or analysis.
C3_ErrorHandlerStep ==
    pc = "error_handler" /\ pc' # pc =>
        /\ state'.workflow_status = "completed_with_errors"
        /\ state'.warnings = Append(state.warnings, HandlerWarning)
        /\ pc' = "END"

C3_ErrorHandlerEntry ==
    /\ Cardinality({i \in 1..Len(visited) : visited[i] = "error_handler"}) <= 1
    /\ \A i \in 1..Len(visited) :
          visited[i] = "error_handler" =>
              i > 1 /\ visited[i - 1] \in {"data_collection", "analysis"}
    /\ (pc = "error_handler" =>
          /\ visited # <<>>
          /\ visited[Len(visited)] \in {"data_collection", "analysis"})

C3_ErrorHandler == [][C3_ErrorHandlerStep]_vars /\ []C3_ErrorHandlerEntry

C3_Witness ==
    /\ "error_handler" \in Range(visited)
    /\ Len(state.warnings) >= 2
    /\ state.workflow_status = "completed_with_errors"

\* C4: every run reaches done; an exception raised inside data_collection or
\* analysis is caught by that stage, which records it in errors, sets its own
\* status to "failed" and is followed by error_handler.
C4_CaughtStep ==
    caught' # caught =>
        LET c == caught'[Len(caught')]
        IN  /\ Len(caught') = Len(caught) + 1
            /\ c.node = pc
            /\ c.exc \in Range(state'.errors)
            /\ (c.node = "data_collection" => state'.data_collection_status = "failed")
            /\ (c.node = "analysis" => state'.analysis_status = "failed")
            /\ pc' = "error_handler"

\* The position of a stage in the run; done is reached at rank 4.
Rank(p) ==
    CASE p = "START" -> 0
      [] p = "data_collection" -> 1
      [] p = "analysis" -> 2
      [] p = "error_handler" -> 3
      [] p = "END" -> 4
      [] OTHER -> 5

\* Termination as a finite-progress argument: a run that is not done always has
\* a step to take, and every step moves strictly forward through the stages, so
\* the runner reaches done after at most four steps.
C4_Progress == Rank(pc') > Rank(pc)

C4_AlwaysTerminates ==
    /\ [](Finished \/ ENABLED Next)
    /\ [][C4_Progress /\ C4_CaughtStep]_vars

C4_Witness ==
    /\ pc = "responded"
    /\ CaughtIn("analysis") # {}

\* C5: when the primary fetch raises a transport error the run ends with
\* workflow_status = "completed_with_errors", data_collection_status =
\* "failed", analysis_status = "pending" and the raised message in errors.
TransportErrors == {c \in CaughtIn("data_collection") : c.exc.kind = "API Error"}

C5_TransportError ==
    Finished /\ TransportErrors # {} =>
        /\ state.workflow_status = "completed_with_errors"
        /\ state.data_collection_status = "failed"
        /\ state.analysis_status = "pending"
        /\ \A c \in TransportErrors : c.exc \in Range(state.errors)

C5_Witness ==
    /\ pc = "responded"
    /\ \E c \in TransportErrors : c.exc.about = "transport"

\* C6: a stage status that is "failed" at the end of a stage is "failed" in
\* every later state of the run.
C6_FailedStaysStep ==
    /\ state.data_collection_status = "failed" => state'.data_collection_status = "failed"
    /\ state.analysis_status = "failed" => state'.analysis_status = "failed"

C6_FailedStays == [][C6_FailedStaysStep]_vars

C6_Witness ==
    /\ state.analysis_status = "failed"
    /\ "error_handler" \in Range(visited)
    /\ pc = "responded"

\* C7: from the end of data_collection on, has_price_changes is true exactly
\* when some validated record has a 24h change that is not null.
C7_HasPriceChanges ==
    visited # <<>> =>
        (state.has_price_changes <=>
            \E i \in 1..Len(state.validated_crypto_data) :
                state.validated_crypto_data[i].price_change_percentage_24h.t # "null")

C7_Witness ==
    /\ pc = "analysis"
    /\ state.has_price_changes
    /\ \E i \in 1..Len(state.raw_crypto_data) :
          /\ CryptoDataErrors(state.raw_crypto_data[i]) = {}
          /\ state.raw_crypto_data[i].price_change_percentage_24h.t = "null"

\* C8: on a sequence of raw records (mappings) the validator returns, and each
\* record lands in exactly one output: the accepted ones in validated, the
\* rejected ones as one error string each, both in raw order.
C8_Partition ==
    vOut.ran /\ (\A i \in 1..Len(vIn) : vIn[i].mapping) =>
        LET accepted == {i \in 1..Len(vIn) : CryptoDataErrors(vIn[i]) = {}}
            rejected == (1..Len(vIn)) \ accepted
        IN  /\ ~vOut.raised
            /\ Len(vOut.validated) + Len(vOut.errors) = Len(vIn)
            /\ Len(vOut.validated) = Cardinality(accepted)
            /\ Len(vOut.errors) = Cardinality(rejected)
            /\ \A k \in 1..Len(vOut.validated) :
                  LET item == vIn[KthIndex(accepted, k)]
                  IN  /\ vOut.validated[k].id = item.id
                      /\ vOut.validated[k].symbol = item.symbol
                      /\ vOut.validated[k].current_price = item.current_price
            /\ \A k \in 1..Len(vOut.errors) :
                  LET item == vIn[KthIndex(rejected, k)]
                  IN  /\ vOut.errors[k].kind = "Validation error for"
                      /\ vOut.errors[k].about =
                            (IF item.id = ABSENT THEN "unknown" ELSE item.id)
                      /\ vOut.errors[k].fields # {}

C8_Witness ==
    /\ vOut.ran
    /\ Len(vIn) = 3
    /\ Len(vOut.validated) = 2
    /\ Len(vOut.errors) = 1
    /\ vOut.validated[1] # vOut.validated[2]

\* C9 (as claimed): the validator returns a (validated, errors) pair for every
\* input sequence, whatever its elements are, and an element that fails does
\* not stop the later elements from being handled.
C9_NeverRaises ==
    vOut.ran =>
        /\ ~vOut.raised
        /\ Len(vOut.validated) + Len(vOut.errors) = Len(vIn)

\* C10: when validation leaves no validated record, data_collection ends
\* "failed" with an error appended, the per-record validation errors are in
\* warnings in raw order, and the run ends "completed_with_errors"; the stage
\* never ends "completed" with empty data.
ValidationLeftNothing ==
    /\ visited # <<>>
    /\ CaughtIn("data_collection") = {}
    /\ state.validated_crypto_data = <<>>

C10_ZeroSurvivors ==
    /\ (visited # <<>> /\ state.data_collection_status = "completed" =>
          state.validated_crypto_data # <<>>)
    /\ (ValidationLeftNothing =>
          /\ state.data_collection_status = "failed"
          /\ state.errors = <<NoValidDataError>>
          /\ Len(state.warnings) >= Len(state.raw_crypto_data)
          /\ \A i \in 1..Len(state.raw_crypto_data) :
                /\ state.warnings[i].kind = "Validation error for"
                /\ state.warnings[i].about =
                      (IF state.raw_crypto_data[i].id = ABSENT THEN "unknown"
                       ELSE state.raw_crypto_data[i].id)
          /\ pc # "analysis"
          /\ (Finished => state.workflow_status = "completed_with_errors"))

C10_Witness ==
    /\ ValidationLeftNothing
    /\ Len(state.raw_crypto_data) = 2
    /\ pc = "responded"

\* The raw records of the state that pass, and that fail, schema validation.
AcceptedRaw ==
    {i \in 1..Len(state.raw_crypto_data) :
        /\ state.raw_crypto_data[i].mapping
        /\ CryptoDataErrors(state.raw_crypto_data[i]) = {}}

RejectedRaw == (1..Len(state.raw_crypto_data)) \ AcceptedRaw

\* C11: when the fetched batch holds both records that pass validation and
\* records that fail it, data_collection ends "completed", the validated data
\* are exactly the passing records in raw order, errors is empty at the end of
\* the stage and warnings holds one validation message per rejected record, in
\* raw order.
C11_PartialBatch ==
    visited # <<>> /\ CaughtIn("data_collection") = {}
      /\ AcceptedRaw # {} /\ RejectedRaw # {} =>
        /\ state.data_collection_status = "completed"
        /\ Len(state.validated_crypto_data) = Cardinality(AcceptedRaw)
        /\ \A k \in 1..Len(state.validated_crypto_data) :
              state.validated_crypto_data[k] =
                  CryptoDataDict(state.raw_crypto_data[KthIndex(AcceptedRaw, k)])
        /\ (Len(visited) = 1 =>
              /\ state.errors = <<>>
              /\ Len(state.warnings) = Cardinality(RejectedRaw)
              /\ \A k \in 1..Len(state.warnings) :
                    state.warnings[k] =
                        ValidationErrorMsg(state.raw_crypto_data[KthIndex(RejectedRaw, k)]))

C11_Witness ==
    /\ visited = <<"data_collection">>
    /\ pc = "analysis"
    /\ Len(state.raw_crypto_data) = 2
    /\ Cardinality(AcceptedRaw) = 1
    /\ Cardinality(RejectedRaw) = 1
    /\ Len(state.warnings) = 1

AnalysisCategories ==
    {"market_overview", "price_trends", "volume_analysis", "top_performers"}

\* C12 (as claimed): whenever analysis_status = "completed", analysis_results
\* has all four category keys (a category without data being present as a
\* placeholder note).
C12_FourCategories ==
    state.analysis_status = "completed" =>
        AnalysisCategories \subseteq DOMAIN state.analysis_results

\* C13 (as claimed): on every non-empty validated set, a null market_cap
\* included, the analysis completes and market_overview reports the number of
\* validated records and the sum of their market capitalizations, null or
\* missing counting as 0.
C13_MarketOverview ==
    "analysis" \in Range(visited) =>
        /\ state.analysis_status = "completed"
        /\ state.analysis_results.market_overview.total_cryptos_analyzed =
              Len(state.validated_crypto_data)
        /\ state.analysis_results.market_overview.total_market_cap =
              SumSeq([i \in 1..Len(state.validated_crypto_data) |->
                         IF state.validated_crypto_data[i].market_cap.t = "num"
                         THEN state.validated_crypto_data[i].market_cap.v
                         ELSE 0])

\* C14 (as claimed): after a completed analysis, price_trends is the placeholder
\* note exactly when no validated record carries a 24h change, and otherwise
\* the computed mapping whose average_24h_change is the arithmetic mean of the
\* changes present.
C14_PriceTrends ==
    state.analysis_status = "completed" =>
        LET changes == PriceChanges(state.validated_crypto_data)
        IN  /\ "price_trends" \in DOMAIN state.analysis_results
            /\ IF changes = <<>>
               THEN DOMAIN state.analysis_results.price_trends = {"note"}
               ELSE /\ "note" \notin DOMAIN state.analysis_results.price_trends
                    /\ state.analysis_results.price_trends.average_24h_change =
                          Ratio(SumSeq(changes), Len(changes))

\* The run collected records that all pass validation, one of them at least
\* with a 24h change, and is over.
ValidRunWithChange ==
    /\ Finished
    /\ CaughtIn("data_collection") = {}
    /\ AcceptedRaw # {}
    /\ RejectedRaw = {}
    /\ PriceChanges(state.validated_crypto_data) # <<>>

\* C15 (as claimed): a run over valid records of which one at least carries a
\* 24h change ends with workflow_status = "completed" and a price_trends that
\* reports positive_movers (changes > 0), negative_movers (changes < 0),
\* strongest_gain (the largest change) and biggest_loss (the smallest).
C15_TrendFigures ==
    ValidRunWithChange =>
        LET changes == PriceChanges(state.validated_crypto_data)
        IN  /\ state.workflow_status = "completed"
            /\ "price_trends" \in DOMAIN state.analysis_results
            /\ {"positive_movers", "negative_movers", "strongest_gain", "biggest_loss"}
                  \subseteq DOMAIN state.analysis_results.price_trends
            /\ state.analysis_results.price_trends.positive_movers =
                  Cardinality({i \in 1..Len(changes) : changes[i] > 0})
            /\ state.analysis_results.price_trends.negative_movers =
                  Cardinality({i \in 1..Len(changes) : changes[i] < 0})
            /\ state.analysis_results.price_trends.strongest_gain \in Range(changes)
            /\ \A i \in 1..Len(changes) :
                  /\ changes[i] <= state.analysis_results.price_trends.strongest_gain
                  /\ changes[i] >= state.analysis_results.price_trends.biggest_loss
            /\ state.analysis_results.price_trends.biggest_loss \in Range(changes)

\* The records of seq whose market capitalization is c, in the order of seq.
WithMarketCap(seq, c) ==
    LET HasCap(x) == x.market_cap = c
    IN  SelectSeq(seq, HasCap)

\* C16 (as claimed): for every validated set of n records the analysis yields
\* top_performers.by_market_cap of length min(5, n), descending by market
\* capitalization, records of equal capitalization in input order, made of
\* input records, and no record left out is larger than one included.
C16_TopByMarketCap ==
    "analysis" \in Range(visited) =>
        /\ state.analysis_status = "completed"
        /\ LET data == state.validated_crypto_data
               top == state.analysis_results.top_performers.by_market_cap
               caps == {data[i].market_cap : i \in 1..Len(data)}
           IN  /\ Len(top) = Min(5, Len(data))
               /\ \A k \in 1..(Len(top) - 1) :
                     top[k].market_cap.v >= top[k + 1].market_cap.v
               /\ \A k \in 1..Len(top) : top[k].market_cap \in caps
               /\ \A c \in caps :
                     LET listed == WithMarketCap(top, c)
                         given == WithMarketCap(data, c)
                     IN  /\ Len(listed) <= Len(given)
                         /\ listed = SubSeq(given, 1, Len(listed))
                         /\ (Len(listed) < Len(given) =>
                               \A k \in 1..Len(top) : top[k].market_cap.v >= c.v)

\* C19: when the secondary price-change call fails, get_basic_crypto_data
\* raises nothing and returns the primary listing unchanged and in order (so
\* that is what data_collection stores as raw data); the run can go on to
\* "completed" data collection and analysis.
C19_SecondaryFailure ==
    gw.secondary = "failed" =>
        /\ ~gw.raised
        /\ gw.data = gw.primary
        /\ \A c \in CaughtIn("data_collection") : c.exc.kind = "AttributeError"
        /\ (CaughtIn("data_collection") = {} => state.raw_crypto_data = gw.primary)

C19_Witness ==
    /\ gw.secondary = "failed"
    /\ gw.primary # <<>>
    /\ state.data_collection_status = "completed"
    /\ state.analysis_status = "completed"
    /\ ~state.has_price_changes
    /\ pc = "responded"

\* Every two successive outbound requests are at least rate_limit_delay apart.
SpacedRequests ==
    \A i \in 1..(Len(sent) - 1) : sent[i + 1].at - sent[i].at >= RateLimitDelay

\* C17 (as claimed): with a single caller, any two successive outbound
\* requests, the one fetch_top_cryptos sends after a 429 included, are
\* dispatched at least 2.5 time units apart.
C17_SingleCallerSpacing ==
    Cardinality(DOMAIN thread) = 1 => SpacedRequests

\* C18: a fetch_top_cryptos call sends at most two requests; the second only
\* after a 429 to the first and not before the cooldown of 120 time units has
\* passed since; a call whose first response is a 429 sends exactly one more
\* request, and it raises if the second response is a 429 again.
C18_RetryOnce ==
    \A i \in 1..Len(calls) :
        calls[i].call = "fetch_top_cryptos" =>
            LET requests == calls[i].requests
            IN  /\ Len(requests) <= 2
                /\ (Len(requests) = 2 =>
                      /\ requests[1].resp = "ratelimit"
                      /\ requests[2].at >= requests[1].got + Cooldown)
                /\ (calls[i].result # "running" /\ requests[1].resp = "ratelimit" =>
                      Len(requests) = 2)
                /\ (Len(requests) = 2 /\ requests[2].resp = "ratelimit" =>
                      calls[i].result = "raised")

C18_Witness ==
    \E i \in 1..Len(calls) :
        /\ calls[i].call = "fetch_top_cryptos"
        /\ Len(calls[i].requests) = 2
        /\ calls[i].requests[2].resp = "ratelimit"
        /\ calls[i].result = "raised"
        /\ Len(calls) > i

\* The callers inside _respect_rate_limit, past its read of last_request_time.
PastDelayCheck == {c \in DOMAIN thread : thread[c].pc \in {"sleeping", "stamp"}}

\* C20 (as claimed): with callers sharing the gateway, at most one of them at a
\* time is between the read and the write of last_request_time, and any two
\* successive outbound requests are at least 2.5 time units apart.
C20_SharedGatewaySpacing ==
    /\ Cardinality(PastDelayCheck) <= 1
    /\ SpacedRequests

\* C24 (as claimed): in a run that went through error_handler the request
\* handler renders no report and its response advertises no report download
\* link.
C24_EnrichmentAfterAnalysis ==
    pc = "responded" /\ "error_handler" \in Range(visited) =>
        /\ "report_download_url" \notin DOMAIN response.data
        /\ response.data.report_filename = ""

\* s is a prefix of t.
IsPrefix(s, t) == Len(s) <= Len(t) /\ SubSeq(t, 1, Len(s)) = s

\* C25: in every step of a run the warnings and the errors of the state before
\* the step are a prefix of those after it: no stage removes, reorders or
\* overwrites a diagnostic recorded earlier.
C25_AppendOnlyStep ==
    /\ IsPrefix(state.warnings, state'.warnings)
    /\ IsPrefix(state.errors, state'.errors)

C25_AppendOnly == [][C25_AppendOnlyStep]_vars

C25_Witness ==
    /\ pc = "END"
    /\ visited = <<"data_collection", "error_handler">>
    /\ Len(state.warnings) >= 3
    /\ state.errors # <<>>
    /\ state.warnings[Len(state.warnings)] = HandlerWarning

\* C26 (as claimed): the listing request data_collection makes is issued with
\* the count and the vs_currency of the request.
C26_QuoteCurrency ==
    gw.called =>
        /\ gw.params.per_page = state.num_coins
        /\ gw.params.vs_currency = state.vs_currency

\* How many times the error-handler warning is in warnings.
HandlerWarnings ==
    Cardinality({i \in 1..Len(state.warnings) : state.warnings[i] = HandlerWarning})

\* C27 (as claimed): at the end of a run workflow_status is "completed" or
\* "completed_with_errors"; "completed" exactly when both stage statuses are
\* "completed", "completed_with_errors" exactly when one of them is "failed";
\* a failed data collection leaves analysis "pending" with empty results; the
\* error-handler warning is in warnings once under "completed_with_errors" and
\* never otherwise.
C27_VerdictAgrees ==
    Finished =>
        /\ state.workflow_status \in {"completed", "completed_with_errors"}
        /\ (state.workflow_status = "completed" <=>
               /\ state.data_collection_status = "completed"
               /\ state.analysis_status = "completed")
        /\ (state.workflow_status = "completed_with_errors" <=>
               \/ state.data_collection_status = "failed"
               \/ state.analysis_status = "failed")
        /\ (state.data_collection_status = "failed" =>
               /\ state.analysis_status = "pending"
               /\ state.analysis_results = EmptyDict)
        /\ HandlerWarnings =
              (IF state.workflow_status = "completed_with_errors" THEN 1 ELSE 0)

\* The fields each enrichment stage writes when it fails.
InsightsFields == {"ai_insights", "insights_status", "insights_error"}
ReportFields == {"report_status", "report_error"}
ChartsFields == {"visualization_status", "visualization_error"}

\* The mappings s and t agree on every key outside keys.
SameOutside(s, t, keys) ==
    /\ DOMAIN t \ keys = DOMAIN s \ keys
    /\ \A k \in DOMAIN s \ keys : t[k] = s[k]

\* C21 A failure inside an enrichment stage (insights, report, charts) changes
\* only that stage's own status field, which becomes 'failed', and its own error
\* field (for insights also the insight sequence): every other key of the state
\* keeps its value, workflow_status, data_collection_status, analysis_status,
\* the other stages' fields, validated_crypto_data, analysis_results, warnings
\* and errors among them.
C21_FailureIsLocalStep ==
    /\ (aPc = "insights" /\ aPc' = "report" /\ aState'["insights_status"] = "failed")
          => /\ SameOutside(aState, aState', InsightsFields)
             /\ InsightsFields \subseteq DOMAIN aState'
    /\ (aPc = "report" /\ aPc' = "charts" /\ aState'["report_status"] = "failed")
          => /\ SameOutside(aState, aState', ReportFields)
             /\ ReportFields \subseteq DOMAIN aState'
    /\ (aPc = "charts" /\ aPc' = "convert"
           /\ aState'["visualization_status"] = "failed")
          => /\ SameOutside(aState, aState', ChartsFields)
             /\ ChartsFields \subseteq DOMAIN aState'

C21_FailureIsLocal == [][C21_FailureIsLocalStep]_vars

C21_Witness ==
    /\ aPc = "convert"
    /\ aState["insights_status"] = "failed"
    /\ aState["report_status"] = "failed"
    /\ aState["visualization_status"] = "failed"
    /\ aState["workflow_status"] = "completed"
    /\ aState["analysis_status"] = "completed"
    /\ aState["warnings"] # <<>>
    /\ Len(aState["validated_crypto_data"]) >= 2

\* C22 generate_insights always leaves an insight sequence in the state: when
\* the remote call answers, the sequence is the parsed answer and
\* insights_status is 'completed'; when it raises, the sequence is the fallback
\* and insights_status is 'failed'. analysis_status and workflow_status keep
\* their values in both cases.
C22_InsightsStep ==
    (aPc = "insights" /\ aPc' = "report") =>
        /\ "ai_insights" \in DOMAIN aState'
        /\ remote.kind = "text" =>
              /\ aState'["insights_status"] = "completed"
              /\ aState'["ai_insights"] = _structure_insights(remote.text)
        /\ remote.kind = "error" =>
              /\ aState'["insights_status"] = "failed"
              /\ aState'["ai_insights"] = _generate_fallback_insights(aState)
              /\ Len(aState'["ai_insights"]) >= 2
        /\ aState'["analysis_status"] = aState["analysis_status"]
        /\ aState'["workflow_status"] = aState["workflow_status"]

C22_InsightsAlwaysSet == [][C22_InsightsStep]_vars

C22_Witness ==
    /\ aPc = "report"
    /\ remote.kind = "error"
    /\ aState["insights_status"] = "failed"
    /\ aState["analysis_status"] = "failed"
    /\ Len(aState["ai_insights"]) = 2

\* price_trends of the state's analysis results, the empty mapping if missing.
PriceTrendsOf(s) == Get(Get(s, "analysis_results", EmptyDict), "price_trends", EmptyDict)

SentimentKinds == {"positive_momentum", "bearish_sentiment"}

\* C23 The fallback insight sequence has exactly two statements, none of them a
\* sentiment statement, when the analysis results carry no price-trend data
\* (price_trends missing or only the placeholder note), and exactly three when
\* they do: the third is the positive-momentum statement if average_24h_change
\* > 0 and the bearish one otherwise.
C23_FallbackShape ==
    (aPc \in {"report", "charts", "convert", "done"}
        /\ aState["insights_status"] = "failed") =>
        LET price_trends == PriceTrendsOf(aState)
            insights == aState["ai_insights"]
        IN  IF "average_24h_change" \in DOMAIN price_trends
            THEN /\ Len(insights) = 3
                 /\ insights[3].kind =
                       IF price_trends["average_24h_change"].num > 0
                       THEN "positive_momentum" ELSE "bearish_sentiment"
            ELSE /\ Len(insights) = 2
                 /\ \A i \in 1..Len(insights) : insights[i].kind \notin SentimentKinds

\* C28 The response built from a state has status 'success' exactly when the
\* state's workflow_status is 'completed' and 'error' otherwise; crypto_count is
\* the length of validated_crypto_data; has_price_changes, workflow_status and
\* the warnings (in order) are the state's.
C28_ResponseMirrorsState ==
    aPc = "done" =>
        /\ response.status = IF aState["workflow_status"] = "completed"
                             THEN "success" ELSE "error"
        /\ response.data.crypto_count = Len(aState["validated_crypto_data"])
        /\ response.data.has_price_changes = aState["has_price_changes"]
        /\ response.data.workflow_status = aState["workflow_status"]
        /\ response.warnings = aState["warnings"]

C28_Witness ==
    /\ aPc = "done"
    /\ response.status = "success"
    /\ response.data.crypto_count = 2
    /\ response.data.has_price_changes
    /\ response.warnings # <<>>

\* The indices of the records that carry a 24h change value.
CarryChange(data) ==
    {i \in 1..Len(data) : ~IsNone(data[i].price_change_percentage_24h)}

\* The place of record i among the records that carry a change, largest change
\* first, ties in input order.
ChangeRank(data, i) ==
    1 + Cardinality({j \in CarryChange(data) :
                        \/ data[j].price_change_percentage_24h.v
                              > data[i].price_change_percentage_24h.v
                        \/ /\ data[j].price_change_percentage_24h.v
                                 = data[i].price_change_percentage_24h.v
                           /\ j < i})

\* C29 After AnalysisAgent analysed a batch, top_by_24h_change holds the
\* min(5, k) records of largest change among the k records that carry a change
\* value (0 included), largest first, ties in input order; it is empty only when
\* no record carries a value.
C29_TopByChange ==
    (aPc \in {"insights", "report", "charts", "convert", "done"}
        /\ "crypto_data" \in DOMAIN aState
        /\ aState["analysis_status"] = "completed"
        /\ "top_by_24h_change" \in DOMAIN aState["analysis_results"].top_performers) =>
        LET data == aState["crypto_data"]
            top == aState["analysis_results"].top_performers.top_by_24h_change
        IN  /\ Len(top) = Min(TopN, Cardinality(CarryChange(data)))
            /\ \A k \in 1..Len(top) :
                  \E i \in CarryChange(data) :
                      /\ ChangeRank(data, i) = k
                      /\ top[k].name = data[i].name
                      /\ top[k].change = data[i].price_change_percentage_24h

\* A line contributes when, blanks trimmed, it begins with a digit, a bullet or
\* a dash and something is left once the prefix is stripped.
Contributes(line) ==
    LET trimmed == Strip(line)
    IN  /\ trimmed # <<>>
        /\ trimmed[1] \in Digits \cup {Bullet, "-"}
        /\ Strip(LStrip(trimmed, PrefixChars)) # <<>>

\* The k-th smallest element of a set of numbers.
KthOf(S, k) == CHOOSE i \in S : Cardinality({j \in S : j <= i}) = k

\* C30 For every remote response text, the parsed insights are at most 4
\* non-empty strings: the first (up to four) lines that begin with a digit, a
\* bullet or a dash and are non-empty after the prefix is stripped, stripped, in
\* the order of the text; a line without such a prefix contributes nothing.
C30_ParsedInsights ==
    (aPc = "report" /\ remote.kind = "text"
        /\ aState["insights_status"] = "completed") =>
        LET lines == Split(remote.text)
            from == {i \in 1..Len(lines) : Contributes(lines[i])}
            insights == aState["ai_insights"]
        IN  /\ Len(insights) = Min(4, Cardinality(from))
            /\ \A k \in 1..Len(insights) :
                  /\ insights[k] # <<>>
                  /\ insights[k] = Strip(LStrip(Strip(lines[KthOf(from, k)]), PrefixChars))

C30_Witness ==
    /\ pc = "parser"
    /\ aPc = "report"
    /\ Len(aState["ai_insights"]) = 4
    /\ LET lines == Split(remote.text)
       IN  /\ Cardinality({i \in 1..Len(lines) : Contributes(lines[i])}) = 5
           /\ ~Contributes(lines[1])
           /\ lines[1] # <<>>
           /\ aState["ai_insights"][1] # aState["ai_insights"][2]

====
